---- MODULE Spec2Model ----
(***************************************************************************)
(* crossref-lmdb: the batched transactional writer (main.Inserter, driven  *)
(* by main.run) and the read-side mapping view (db.DBReader) over one LMDB *)
(* environment.                                                            *)
(*                                                                         *)
(* A stored value is modelled as a record                                  *)
(*     [z, enc, doi, ts]                                                   *)
(* z    : TRUE when the bytes are a zlib stream                            *)
(* enc  : "json" for a minified item document, "iso" for the text of       *)
(*        datetime.isoformat()                                             *)
(* doi, ts : the content of the document (ts alone for "iso"); two items   *)
(*        of one DOI differ in content exactly when they differ in ts      *)
(* Time is an integer; Floor is datetime(1900, 1, 1), below every          *)
(* timestamp the upstream index issues.                                    *)
(***************************************************************************)
EXTENDS Integers, Sequences, FiniteSets

\* ----------------------------------------------------------------- bounds
MaxItems == 3
MaxRuns == 2
MaxTs == 2
MaxFreq == 2

\* -------------------------------------------------------------- constants
Floor == 0
NoTs == -1
NSpecialKeys == 1
\* tenacity.stop_after_attempt(20)
StopAfterAttempt == 20

SpecialKey == "__most_recent_indexed"
\* a reader that lists no special key
SpecialKeys_Unlisted == {}
\* DBReader._special_keys
SpecialKeys == {SpecialKey}
EmptyKey == ""
NoDoi == "<no DOI>"

\* the byte order of the keys LMDB keeps ('1' < '_', 'm' < 'x')
KeyOrder == <<"10.1/a", "10.1/b", "__most_recent_indexed", "__x">>
Keys == {KeyOrder[i] : i \in 1..Len(KeyOrder)}
\* str(key).startswith("__")
StartsWithDunder(key) == key \in {"__most_recent_indexed", "__x"}

Stamps == 1..MaxTs
\* the documents a store can hold, and the candidates carrying a DOI that the
\* item sources of the writer specification deliver
Docs == [doi : Keys, ts : Stamps \cup {NoTs}]
Dois == {"10.1/a", "10.1/b", SpecialKey}
Items == {d \in Docs : d.doi \in Dois}
NoItem == [doi |-> NoDoi, ts |-> NoTs]
Modes == {"create", "update"}

Max2(a, b) == IF a >= b THEN a ELSE b

\* ------------------------------------------------------------------ codec
\* A byte string is its content (enc, doi, ts) under the zlib streams that
\* wrap it, outermost first: z lists the level of each stream and whether
\* bytes follow the end of the stream.
\* item.mini: the minified JSON text of the document
Mini(item) ==
    [z |-> <<>>, enc |-> "json", doi |-> item.doi, ts |-> item.ts]
\* datetime.isoformat().encode()
Isoformat(dt) ==
    [z |-> <<>>, enc |-> "iso", doi |-> NoDoi, ts |-> dt]
\* the levels zlib.compress takes
Levels == (0 - 1)..9
\* zlib.compress(data, level): level -1 is zlib's default, 6
ZlibCompress(bytes, level) ==
    [bytes EXCEPT !.z = <<[level |-> IF level = 0 - 1 THEN 6 ELSE level,
                           trailing |-> FALSE]>> \o @]
\* zlib.decompress(data): the content of the stream the data starts with,
\* whatever follows its end; zlib.error when the data starts with none
ZlibDecompress(bytes) ==
    IF bytes.z # <<>> THEN [status |-> "ok", data |-> [bytes EXCEPT !.z = Tail(@)]]
    ELSE [status |-> "zlib.error", data |-> bytes]
\* zlib.compress(item_bytes, level=self.compression_level) at the default level
Compress(bytes) == ZlibCompress(bytes, 0 - 1)
\* an extraction that undoes every stream it finds
ExtractValue_All(raw) == [raw EXCEPT !.z = <<>>]
\* DBReader._extract_value: zlib.decompress, the input itself on zlib.error
ExtractValue(raw) ==
    LET r == ZlibDecompress(raw)
    IN IF r.status = "ok" THEN r.data ELSE raw
\* a parse that takes any bytes for an Object
IsObject_Any(bytes) == TRUE
\* simdjson.Parser().parse(...) yields an Object only for a JSON document
IsObject(bytes) == bytes.enc = "json" /\ bytes.z = <<>>
Doc(bytes) == [doi |-> bytes.doi, ts |-> bytes.ts]
\* date.get_indexed_datetime: item["indexed"]["date-time"], None when missing
GetIndexedDatetime(item) == item.ts

\* ------------------------------------------------------------------ store
EmptyStore == [k \in {} |-> NoItem]
NoTxn == [open |-> FALSE, view |-> EmptyStore]
\* txn.put(key, value, overwrite=False): an existing entry is kept
Put_NoOverwrite(view, key, value) ==
    [k \in DOMAIN view \cup {key} |-> IF k \in DOMAIN view THEN view[k] ELSE value]
\* txn.put(key, value): overwrite is True by default
Put(view, key, value) ==
    [k \in DOMAIN view \cup {key} |-> IF k = key THEN value ELSE view[k]]

VARIABLES
    db,                 \* the committed content of the LMDB environment
    txn,                \* Inserter.txn: None, or the open write transaction
    item_count,         \* Inserter.item_count
    open_txns,          \* write transactions of the environment begun and not ended
    most_recent_indexed,\* Inserter.most_recent_indexed
    commit_frequency,   \* Inserter.commit_frequency
    mode,               \* CreateParams ("create") or UpdateParams ("update")
    pc,                 \* position of main.run
    cur_item,           \* the item insert_item is working on
    raised,             \* an exception is propagating out of the with block
    runs, steps,        \* runs started, items consumed (bounded)
    last_exit,          \* how the latest run ended, "none" while one runs
    wm_high,            \* history: greatest watermark ever committed
    run_items,          \* history: the items handed to insert_item this run
    batch_records,      \* history: record writes staged in the open txn; after
                        \* __exit__, those its commit made durable
    existed,            \* history: what the latest record put found under its key
    reader,             \* DBReader: open, cursor position, _has_more
    out,                \* result of the latest DBReader call
    snapshot,           \* DBReader._txn: the store as committed when the reader opened
    attempt_number,     \* tenacity: the attempt of Inserter.commit under way, 0 if none
    site,               \* the caller of the commit under way: "insert" or "exit"
    last_error,         \* the exception the latest commit attempt raised
    directory,          \* the *.json.gz files of public_data_dir (names less ".json.gz")
    gz_paths,           \* FileSource.gz_paths
    start_from_file_num,\* FileSource.start_from_file_num
    file_idx,           \* how far iter_unfiltered_items_data is in gz_paths
    yielded,            \* history: the files whose data the generator yielded
    file_state,         \* "none", "iter" (generator running), "done"
    segments,           \* the item each file of the directory holds
    pending,            \* the item iter_item has yielded and the loop not yet inserted
    crashed_in,         \* the number of the file in work when the process died
    server,             \* the responses the remote gives to the paged requests, in turn
    web_pc,             \* WebSource: "new", "query", "page" (at the yield), "done", "failed"
    cursor,             \* iter_unfiltered_items_data: cursor
    requests,           \* every query handed to client.call, in order
    message,            \* the response whose message was yielded last
    page_items,         \* iter_item: the items of json_items not yet visited
    from_date,          \* WebSource.from_date
    web_error,          \* the exception that ended the generator
    filter_func,        \* ItemSource.filter_func: None, or the DOIs it accepts
    emitted,            \* history: the items iter_item has yielded, in order
    codec_in,           \* the byte string handed to the codec
    codec_level,        \* the level it was compressed with
    codec_out,          \* what the latest codec call returned
    codec_op            \* the calls made on codec_in so far

ins_vars == <<db, txn, item_count, most_recent_indexed, open_txns>>
run_vars == <<commit_frequency, mode, pc, cur_item, raised, runs, steps, last_exit>>
hist_vars == <<wm_high, run_items, batch_records, existed>>
rd_vars == <<reader, out, snapshot>>
cm_vars == <<attempt_number, site, last_error>>
\* the variables of the commit, file and web specifications
codec_vars == <<codec_in, codec_level, codec_out, codec_op>>
ext_vars == <<cm_vars, codec_vars>>
file_vars == <<directory, gz_paths, start_from_file_num, file_idx, yielded, file_state>>
\* the variables of the item sources
bulk_vars == <<segments, pending, crashed_in>>
web_vars == <<server, web_pc, cursor, requests, message, page_items, from_date, web_error,
              filter_func, emitted>>
src_vars == <<file_vars, bulk_vars, web_vars>>
vars == <<ins_vars, run_vars, hist_vars, rd_vars, ext_vars, src_vars>>

\* the codec at rest
NoCodec ==
    /\ codec_in = Mini(NoItem)
    /\ codec_level = 0 - 1
    /\ codec_out = Mini(NoItem)
    /\ codec_op = "none"

\* ------------------------------------------------------------------ dates
\* Timestamps are ticks; a calendar date is the number of a day of
\* TicksPerDay ticks.
TicksPerDay == 2
\* the first tick of a date
DayStart(date) == date * TicksPerDay
\* a strftime that rounds up to the next date
Strftime_Up(dt) == (dt + TicksPerDay - 1) \div TicksPerDay
\* from_date_dt.strftime("%Y-%m-%d")
Strftime(dt) == dt \div TicksPerDay

\* params.from_date is None
NoDate == NoTs

\* --------------------------------------------------------------- DBReader
SortedKeys(store) == SelectSeq(KeyOrder, LAMBDA k : k \in DOMAIN store)

\* DBReader.__len__: env.stat()["entries"] - len(self._special_keys)
Length(store) == Cardinality(DOMAIN store) - NSpecialKeys

Result(op, key, status, doc, n) ==
    [op |-> op, key |-> key, status |-> status, doc |-> doc, n |-> n]
NoResult == Result("none", EmptyKey, "none", NoItem, 0)

\* DBReader.__getitem__
GetItem(store, key) ==
    IF StartsWithDunder(key)
    THEN Result("get", key, "KeyError", NoItem, 0)
    ELSE IF key \notin DOMAIN store
    \* txn.get returns None and zlib.decompress(None) raises TypeError
    THEN Result("get", key, "TypeError", NoItem, 0)
    ELSE LET raw_data == ExtractValue(store[key])
         IN IF IsObject(raw_data)
            THEN Result("get", key, "ok", Doc(raw_data), 0)
            ELSE Result("get", key, "ValueError", NoItem, 0)

\* cursor.key(): the key under the cursor, b"" when it is not positioned
CursorKey(store, pos) == IF pos = 0 THEN EmptyKey ELSE SortedKeys(store)[pos]
\* cursor.first() / cursor.next(): the new position, 0 when the move fails
\* (MDB_NEXT on a cursor that is not positioned is MDB_FIRST)
\* a cursor set on the last key
CursorFirst_Last(store) == Len(SortedKeys(store))
CursorFirst(store) == IF Len(SortedKeys(store)) > 0 THEN 1 ELSE 0
CursorNext(store, pos) == IF pos < Len(SortedKeys(store)) THEN pos + 1 ELSE 0

\* DBReader.__next__: the loop "while key is None or key in _special_keys";
\* the result carries the key, or StopIteration, and the cursor's new state.
RECURSIVE NextLoop(_, _, _)
NextLoop(store, pos, has_more) ==
    IF ~has_more
    THEN [pos |-> pos, has_more |-> has_more, key |-> EmptyKey, stop |-> TRUE]
    ELSE LET key == CursorKey(store, pos)
             npos == CursorNext(store, pos)
         IN IF key \in SpecialKeys
            THEN NextLoop(store, npos, npos # 0)
            ELSE [pos |-> npos, has_more |-> npos # 0, key |-> key, stop |-> FALSE]
ReaderNextStep(store, pos, has_more) == NextLoop(store, pos, has_more)

\* the keys a full "for key in reader" yields, in order
RECURSIVE IterateFrom(_, _, _)
IterateFrom(store, pos, has_more) ==
    LET r == ReaderNextStep(store, pos, has_more)
    IN IF r.stop THEN <<>>
       ELSE <<r.key>> \o IterateFrom(store, r.pos, r.has_more)
Iterate(store) == IterateFrom(store, CursorFirst(store), TRUE)

\* DBReader.most_recent_indexed: the decoded text of the reserved entry
MostRecentIndexed(store) ==
    IF SpecialKey \in DOMAIN store
    THEN [status |-> "ok", text |-> ExtractValue(store[SpecialKey])]
    ELSE [status |-> "error", text |-> Isoformat(NoTs)]

\* datetime.datetime.fromisoformat succeeds on isoformat text only
IsIsoText(text) == text.enc = "iso" /\ text.z = <<>>

\* main.run: the watermark the Inserter starts from
LoadWatermark(store) ==
    LET r == MostRecentIndexed(store)
    IN IF r.status = "ok" /\ IsIsoText(r.text) THEN r.text.ts ELSE Floor

\* the timestamp the committed reserved entry states, NoTs when there is none
WatermarkTs(store) ==
    LET r == MostRecentIndexed(store)
    IN IF r.status = "ok" /\ IsIsoText(r.text) THEN r.text.ts ELSE NoTs

\* --------------------------------------------------------------- Inserter
\* The Inserter's fields together with the store, threaded through the calls
\* one handler makes: [db, txn, item_count, mri, open_txns, raised].
Cur == [db |-> db, txn |-> txn, item_count |-> item_count,
        mri |-> most_recent_indexed, open_txns |-> open_txns, raised |-> FALSE]

\* Inserter.init_txn
InitTxn(s) == [s EXCEPT !.txn = [open |-> TRUE, view |-> s.db],
                         !.open_txns = @ + 1]

\* a commit that returns without writing the transaction to the store
CommitTxn_Lost(s, ok) == IF ok THEN s ELSE [s EXCEPT !.raised = TRUE]

\* Inserter.commit under tenacity.retry: ok says that one of the attempts
\* succeeded; otherwise the last lmdb.Error leaves as a RetryError
CommitTxn(s, ok) ==
    IF ~s.txn.open THEN [s EXCEPT !.raised = TRUE]
    ELSE IF ok THEN [s EXCEPT !.db = s.txn.view, !.open_txns = @ - 1]
    ELSE [s EXCEPT !.raised = TRUE]

\* Python's n % d == 0 for d other than 0: the sign of d does not matter
Divides(d, n) == n % (IF d < 0 THEN 0 - d ELSE d) = 0
\* whether the put that brings item_count to n is followed by a commit
CommitDue(n) == Divides(commit_frequency, n)

\* an insert that begins a transaction on every call
Insert_AlwaysBegin(s, key, value, ok) ==
    LET s0 == InitTxn(s)
        s1 == [s0 EXCEPT !.txn.view = Put(s0.txn.view, key, value),
                         !.item_count = @ + 1]
    \* item_count % 0 raises ZeroDivisionError after the put
    IN IF commit_frequency = 0 THEN [s1 EXCEPT !.raised = TRUE]
       ELSE IF CommitDue(s1.item_count)
       THEN LET s2 == CommitTxn(s1, ok)
            IN IF s2.raised THEN s2 ELSE [s2 EXCEPT !.txn = NoTxn]
       ELSE s1

\* Inserter.insert
Insert(s, key, value, ok) ==
    LET s0 == IF s.txn.open THEN s ELSE InitTxn(s)
        s1 == [s0 EXCEPT !.txn.view = Put(s0.txn.view, key, value),
                         !.item_count = @ + 1]
    \* item_count % 0 raises ZeroDivisionError after the put
    IN IF commit_frequency = 0 THEN [s1 EXCEPT !.raised = TRUE]
       ELSE IF CommitDue(s1.item_count)
       THEN LET s2 == CommitTxn(s1, ok)
            IN IF s2.raised THEN s2 ELSE [s2 EXCEPT !.txn = NoTxn]
       ELSE s1

\* what the run sees through the write path: the open transaction, else the store
View(s) == IF s.txn.open THEN s.txn.view ELSE s.db
CurView == View(Cur)

\* ---------------------------------------------------------------- history
ClosedReader == [open |-> FALSE, iter |-> FALSE, pos |-> 0, has_more |-> FALSE]
\* what a put finds under its key: nothing, the same bytes, other bytes
Found(view, key, value) ==
    IF key \notin DOMAIN view THEN "absent"
    ELSE IF view[key] = value THEN "same" ELSE "different"

\* ------------------------------------------------------------ FileSource
\* A file name less its suffix ".json.gz" is the sequence of its decimal
\* digits: <<1, 0>> is "10.json.gz".
FileNames == {<<0>>, <<1>>, <<2>>, <<9>>, <<1, 0>>, <<0, 1>>}
StartNums == {0, 1, 2, 3, 10, 11}

\* FileSource.file_num_from_path: int(path.name[: -len(".json.gz")])
RECURSIVE FileNumFromPath(_)
FileNumFromPath(path) ==
    IF Len(path) = 0 THEN 0
    ELSE 10 * FileNumFromPath(SubSeq(path, 1, Len(path) - 1)) + path[Len(path)]

\* the place of a name in the order of the names as text
RECURSIVE SortKey_Name(_)
SortKey_Name(path) ==
    IF Len(path) = 0 THEN 0
    ELSE (path[1] + 1) * 100 + SortKey_Name(Tail(path)) \div 11
\* the key gz_paths is sorted by
SortKey(path) == FileNumFromPath(path)

\* sorted(glob("*.json.gz"), key=...): glob lists the files in any order and
\* sorted keeps the files of equal key in that order
SortedPaths(dir) ==
    {p \in [1..Cardinality(dir) -> dir] :
        /\ \A i, j \in DOMAIN p : i # j => p[i] # p[j]
        /\ \A i, j \in DOMAIN p : i < j => SortKey(p[i]) <= SortKey(p[j])}

\* FileSource.total_items: len(self.gz_paths) - self.start_from_file_num
TotalItems(paths, start) == Len(paths) - start

\* a test that also skips the file the run is to start from
Skips_StartToo(file_num, start) == file_num <= start
\* iter_unfiltered_items_data: if file_num < self.start_from_file_num: continue
Skips(file_num, start) == file_num < start

\* iter_unfiltered_items_data: the index in gz_paths of the next file whose
\* data is yielded, 0 when the loop ends
RECURSIVE NextYield(_, _, _)
NextYield(paths, idx, start) ==
    IF idx >= Len(paths) THEN 0
    ELSE IF Skips(FileNumFromPath(paths[idx + 1]), start)
         THEN NextYield(paths, idx + 1, start)
         ELSE idx + 1

\* -------------------------------------------------------------- WebSource
MaxPages == 3
NRows == 1000
Wildcard == "*"
NoCursor == "<no next-cursor>"
Tokens == {"c1", "c2"}
PageDocs == {<<>>, <<[doi |-> "10.1/a", ts |-> 1]>>, <<[doi |-> "10.1/b", ts |-> 2]>>}

\* the content of a response: whether data["message"] is there and an Object,
\* whether message["items"] is there and an Array, the items, the next-cursor
Responses ==
    {r \in [msg : {"object", "absent", "other"}, items : {"array", "absent", "other"},
            docs : PageDocs, next : Tokens \cup {NoCursor}] :
        /\ (r.msg # "object") => (r.items = "absent")
        /\ (r.items # "array") => (r.docs = <<>> /\ r.next = NoCursor)}
NoResponse == [msg |-> "absent", items |-> "absent", docs |-> <<>>, next |-> NoCursor]
\* a page of zero items
LastPage == [msg |-> "object", items |-> "array", docs |-> <<>>, next |-> "c1"]

\* WebSource.form_query
FormQuery(from, cur, n_rows, only_doi) ==
    [filter |-> from, rows |-> n_rows, cursor |-> cur,
     select |-> IF only_doi THEN "DOI" ELSE "none", sort |-> "indexed", order |-> "asc"]

\* the queries of iter_unfiltered_items_data among the queries made
PageRequests == SelectSeq(requests, LAMBDA q : q.by = "page")
NPages == Len(PageRequests)
\* the response to the k-th paged request; a remote asked past its last page
\* answers with a page of zero items
Respond(k) == IF k <= MaxPages THEN server[k] ELSE LastPage

\* a loop that goes on after a page of zero items
MorePages_Always(n_items) == TRUE
\* iter_unfiltered_items_data: more_pages = n_items > 0
MorePages(n_items) == n_items > 0

\* a cursor that stays the wildcard
NextCursor_Wildcard(msg) == Wildcard
\* iter_unfiltered_items_data: cursor = str(message["next-cursor"])
NextCursor(msg) == msg.next

\* an item of json_items that is no Object
NotObject == [doi |-> "<not an Object>", ts |-> NoTs]
\* filter_func is None
NoFilter == [on |-> FALSE, accept |-> {}]

NoWeb ==
    /\ server = <<>>
    /\ web_pc = "new"
    /\ cursor = Wildcard
    /\ requests = <<>>
    /\ message = NoResponse
    /\ page_items = <<>>
    /\ from_date = Floor
    /\ web_error = "none"
    /\ filter_func = NoFilter
    /\ emitted = <<>>

\* no item source has been built
NoSource ==
    /\ directory = {}
    /\ gz_paths = <<>>
    /\ start_from_file_num = 0
    /\ file_idx = 0
    /\ yielded = <<>>
    /\ file_state = "none"
    /\ segments = <<>>
    /\ pending = NoItem
    /\ crashed_in = 0
    /\ NoWeb

\* FileSource.__init__
NewFileSource(start) ==
    /\ file_state = "none"
    /\ gz_paths' \in SortedPaths(directory)
    /\ start_from_file_num' = start
    /\ file_idx' = 0
    /\ yielded' = <<>>
    /\ file_state' = "iter"
    /\ UNCHANGED directory

\* one next() of the generator iter_unfiltered_items_data
NextData ==
    /\ file_state = "iter"
    /\ LET j == NextYield(gz_paths, file_idx, start_from_file_num)
       IN IF j = 0
          THEN /\ file_state' = "done"
               /\ file_idx' = Len(gz_paths)
               /\ UNCHANGED yielded
          ELSE /\ file_idx' = j
               /\ yielded' = Append(yielded, gz_paths[j])
               /\ UNCHANGED file_state
    /\ UNCHANGED <<directory, gz_paths, start_from_file_num>>

\* ------------------------------------------------------------------- Init
Init ==
    /\ db = EmptyStore
    /\ txn = NoTxn
    /\ item_count = 0
    /\ open_txns = 0
    /\ most_recent_indexed = Floor
    /\ commit_frequency = 1
    /\ mode = "create"
    /\ pc = "idle"
    /\ cur_item = NoItem
    /\ raised = FALSE
    /\ runs = 0
    /\ steps = 0
    /\ last_exit = "none"
    /\ wm_high = NoTs
    /\ run_items = {}
    /\ batch_records = 0
    /\ existed = "none"
    /\ reader = ClosedReader
    /\ out = NoResult
    /\ snapshot = EmptyStore
    /\ attempt_number = 0
    /\ site = "none"
    /\ last_error = "none"
    /\ NoCodec
    /\ NoSource

\* ------------------------------------------------------------------- run
\* main.run up to the with block: load the watermark, build the Inserter
StartRun(m, n) ==
    /\ pc = "idle"
    /\ runs < MaxRuns
    /\ steps < MaxItems
    /\ runs' = runs + 1
    /\ mode' = m
    /\ commit_frequency' = n
    /\ most_recent_indexed' = LoadWatermark(db)
    /\ txn' = NoTxn
    /\ item_count' = 0
    /\ open_txns' = 0
    /\ pc' = "loop"
    /\ cur_item' = NoItem
    /\ raised' = FALSE
    /\ run_items' = {}
    /\ batch_records' = 0
    /\ existed' = "none"
    /\ last_exit' = "none"
    /\ UNCHANGED <<db, steps, wm_high, rd_vars, ext_vars>>

\* Inserter.insert_item, first half: the DOI, the compressed item, insert()
InsertRecord(item, ok) ==
    /\ pc = "loop"
    /\ steps < MaxItems
    /\ LET value == Compress(Mini(item))
           s == Insert(Cur, item.doi, value, ok)
           committed == ~s.raised /\ ~s.txn.open
       IN /\ db' = s.db
          /\ txn' = s.txn
          /\ item_count' = s.item_count
          /\ open_txns' = s.open_txns
          /\ raised' = s.raised
          /\ pc' = IF s.raised THEN "exit" ELSE "wm"
          /\ wm_high' = Max2(wm_high, WatermarkTs(s.db))
          /\ batch_records' = IF committed THEN 0 ELSE batch_records + 1
          /\ existed' = Found(CurView, item.doi, value)
    /\ cur_item' = item
    /\ steps' = steps + 1
    /\ run_items' = run_items \cup {item}
    /\ UNCHANGED <<most_recent_indexed, commit_frequency, mode, runs, last_exit,
                   rd_vars, ext_vars>>

\* whether insert_item stages the reserved entry for this timestamp
Advances(indexed_datetime, mri) ==
    indexed_datetime # NoTs /\ indexed_datetime > mri

\* Inserter.insert_item, second half: the indexed date and the reserved entry
WatermarkStep(ok) ==
    /\ pc = "wm"
    /\ LET indexed_datetime == GetIndexedDatetime(cur_item)
           adv == Advances(indexed_datetime, most_recent_indexed)
           s == IF adv
                THEN Insert(Cur, SpecialKey, Compress(Isoformat(indexed_datetime)), ok)
                ELSE Cur
           committed == adv /\ ~s.raised /\ ~s.txn.open
       IN /\ db' = s.db
          /\ txn' = s.txn
          /\ item_count' = s.item_count
          /\ open_txns' = s.open_txns
          /\ most_recent_indexed' =
                IF adv /\ ~s.raised THEN indexed_datetime ELSE most_recent_indexed
          /\ raised' = s.raised
          /\ pc' = IF s.raised THEN "exit" ELSE "loop"
          /\ wm_high' = Max2(wm_high, WatermarkTs(s.db))
          /\ batch_records' = IF committed THEN 0 ELSE batch_records
    /\ cur_item' = NoItem
    /\ existed' = "none"
    /\ UNCHANGED <<commit_frequency, mode, runs, steps, last_exit, run_items, rd_vars, ext_vars>>

\* the for loop of main.run ends: the item iterator is exhausted
SourceExhausted ==
    /\ pc = "loop"
    /\ pc' = "exit"
    /\ raised' = FALSE
    /\ UNCHANGED <<ins_vars, commit_frequency, mode, cur_item, runs, steps,
                   last_exit, hist_vars, rd_vars, ext_vars>>

\* the item iterator raises (a document of an unexpected shape)
SourceError ==
    /\ pc = "loop"
    /\ pc' = "exit"
    /\ raised' = TRUE
    /\ UNCHANGED <<ins_vars, commit_frequency, mode, cur_item, runs, steps,
                   last_exit, hist_vars, rd_vars, ext_vars>>

\* an __exit__ that leaves the open transaction uncommitted
InserterExit_NoCommit(s, ok) == s
\* Inserter.__exit__: if self.txn is not None: self.commit()
InserterExit(s, ok) == IF s.txn.open THEN CommitTxn(s, ok) ELSE s

\* Inserter.__exit__ and the end of main.run; last_exit tells a run that ended
\* normally from one an earlier exception ended ("error") and from one whose
\* commit in __exit__ raised ("commit_error")
ExitScope(ok) ==
    /\ pc = "exit"
    /\ LET s == InserterExit(Cur, ok)
       IN /\ db' = s.db
          /\ last_exit' = IF s.raised THEN "commit_error"
                          ELSE IF raised THEN "error" ELSE "normal"
          /\ run_items' = IF ~raised /\ ~s.raised THEN run_items ELSE {}
          /\ wm_high' = Max2(wm_high, WatermarkTs(s.db))
          /\ batch_records' = IF txn.open /\ ~s.raised THEN batch_records ELSE 0
    /\ txn' = NoTxn
    /\ item_count' = 0
    /\ open_txns' = 0
    /\ most_recent_indexed' = Floor
    /\ commit_frequency' = 1
    /\ mode' = "create"
    /\ pc' = "idle"
    /\ cur_item' = NoItem
    /\ raised' = FALSE
    /\ existed' = "none"
    /\ UNCHANGED <<runs, steps, rd_vars, ext_vars>>

\* the process is terminated: the open transaction is lost with it
Crash ==
    /\ pc \in {"loop", "wm", "exit"}
    /\ txn' = NoTxn
    /\ item_count' = 0
    /\ open_txns' = 0
    /\ most_recent_indexed' = Floor
    /\ commit_frequency' = 1
    /\ mode' = "create"
    /\ pc' = "idle"
    /\ cur_item' = NoItem
    /\ raised' = FALSE
    /\ last_exit' = "crash"
    /\ run_items' = {}
    /\ batch_records' = 0
    /\ existed' = "none"
    /\ UNCHANGED <<db, runs, steps, wm_high, rd_vars, ext_vars>>

\* ---------------------------------------------------------------- reader
\* what the reader's transaction and cursor read: the store as it was
\* committed when env.begin(write=False) ran, whatever is committed later
TxnStore == snapshot

\* DBReader.__init__: a read transaction and a cursor on the committed store
ReaderOpen ==
    /\ ~reader.open
    /\ reader' = [ClosedReader EXCEPT !.open = TRUE]
    /\ out' = NoResult
    /\ snapshot' = db
    /\ UNCHANGED <<ins_vars, run_vars, hist_vars, ext_vars>>

\* DBReader.close
ReaderClose ==
    /\ reader.open
    /\ reader' = ClosedReader
    /\ out' = NoResult
    /\ snapshot' = EmptyStore
    /\ UNCHANGED <<ins_vars, run_vars, hist_vars, ext_vars>>

\* DBReader.__iter__
ReaderIter ==
    /\ reader.open
    /\ reader' = [reader EXCEPT !.iter = TRUE, !.pos = CursorFirst(TxnStore),
                                !.has_more = TRUE]
    /\ out' = NoResult
    /\ UNCHANGED snapshot
    /\ UNCHANGED <<ins_vars, run_vars, hist_vars, ext_vars>>

\* DBReader.__next__
ReaderNext ==
    /\ reader.open
    /\ reader.iter
    /\ LET r == ReaderNextStep(TxnStore, reader.pos, reader.has_more)
       IN /\ reader' = [reader EXCEPT !.pos = r.pos, !.has_more = r.has_more,
                                      !.iter = ~r.stop]
          /\ out' = Result("next", r.key,
                           IF r.stop THEN "StopIteration" ELSE "ok", NoItem, 0)
    /\ UNCHANGED snapshot
    /\ UNCHANGED <<ins_vars, run_vars, hist_vars, ext_vars>>

\* reader[key]
ReaderGet(key) ==
    /\ reader.open
    /\ ~reader.iter
    /\ out' = GetItem(TxnStore, key)
    /\ UNCHANGED <<ins_vars, run_vars, hist_vars, reader, snapshot, ext_vars>>

\* len(reader): env.stat() is read from the environment, not from the
\* reader's transaction, and tells the entries of the latest commit
ReaderLen ==
    /\ reader.open
    /\ ~reader.iter
    /\ out' = Result("len", EmptyKey, "ok", NoItem, Length(db))
    /\ UNCHANGED <<ins_vars, run_vars, hist_vars, reader, snapshot, ext_vars>>

\* reader.most_recent_indexed
ReaderWatermark ==
    /\ reader.open
    /\ ~reader.iter
    /\ LET r == MostRecentIndexed(TxnStore)
       IN out' = Result("wm", EmptyKey, r.status, Doc(r.text),
                        IF r.status = "ok" /\ IsIsoText(r.text) THEN r.text.ts ELSE NoTs)
    /\ UNCHANGED <<ins_vars, run_vars, hist_vars, reader, snapshot, ext_vars>>

\* DBReader.get_most_recent_indexed, the loop "for item in self.values()":
\* Mapping.values() takes each key of iter(self) and reads self[key]; an item
\* without an indexed date-time raises ValueError, and so does a loop that
\* saw no item; the result is the date of the greatest date-time.
RECURSIVE ScanFrom(_, _, _, _)
ScanFrom(store, pos, has_more, most_recent) ==
    LET r == ReaderNextStep(store, pos, has_more)
    IN IF r.stop
       THEN [pos |-> r.pos, has_more |-> r.has_more,
             status |-> IF most_recent = NoTs THEN "ValueError" ELSE "ok",
             date |-> IF most_recent = NoTs THEN NoDate ELSE Strftime(most_recent)]
       ELSE LET g == GetItem(store, r.key)
                item_indexed_datetime == GetIndexedDatetime(g.doc)
            IN IF g.status # "ok"
               THEN [pos |-> r.pos, has_more |-> r.has_more, status |-> g.status,
                     date |-> NoDate]
               ELSE IF item_indexed_datetime = NoTs
               THEN [pos |-> r.pos, has_more |-> r.has_more, status |-> "ValueError",
                     date |-> NoDate]
               ELSE ScanFrom(store, r.pos, r.has_more,
                             IF most_recent = NoTs \/ item_indexed_datetime > most_recent
                             THEN item_indexed_datetime ELSE most_recent)
GetMostRecentIndexed(store) == ScanFrom(store, CursorFirst(store), TRUE, NoTs)

\* reader.get_most_recent_indexed()
ReaderScan ==
    /\ reader.open
    /\ ~reader.iter
    /\ LET s == GetMostRecentIndexed(TxnStore)
       IN /\ out' = Result("scan", EmptyKey, s.status, NoItem, s.date)
          /\ reader' = [reader EXCEPT !.iter = TRUE, !.pos = s.pos, !.has_more = s.has_more]
    /\ UNCHANGED <<ins_vars, run_vars, hist_vars, snapshot, ext_vars>>

\* ----------------------------------------------------------- writer spec
\* the item source is left out: the loop is handed any item
Next ==
    \/ \E m \in Modes, n \in 1..MaxFreq : StartRun(m, n) /\ UNCHANGED src_vars
    \/ \E item \in Items, ok \in BOOLEAN : InsertRecord(item, ok) /\ UNCHANGED src_vars
    \/ \E ok \in BOOLEAN : WatermarkStep(ok) /\ UNCHANGED src_vars
    \/ SourceExhausted /\ UNCHANGED src_vars
    \/ SourceError /\ UNCHANGED src_vars
    \/ \E ok \in BOOLEAN : ExitScope(ok) /\ UNCHANGED src_vars
    \/ Crash /\ UNCHANGED src_vars

Spec == Init /\ [][Next]_vars

\* Every store of compressed items keyed by their DOI, with or without a
\* reserved entry, is one the writer can leave behind: the replace of an
\* entry sets any item, a crash between the two puts of insert_item leaves
\* items without their watermark, and an item whose DOI is the reserved key
\* leaves its own value there.
StoredValues(key) ==
    {Compress(Mini(item)) : item \in {i \in Docs : i.doi = key}}
    \cup (IF key = SpecialKey THEN {Compress(Isoformat(ts)) : ts \in Stamps} ELSE {})
StoresOver(ks) == {f \in [ks -> UNION {StoredValues(k) : k \in ks}] :
                      \A k \in ks : f[k] \in StoredValues(k)}
Stores == UNION {StoresOver(ks) : ks \in SUBSET Keys}

\* ------------------------------------------------------------ commit spec
\* The run with Inserter.insert and Inserter.commit taken one statement and one
\* attempt at a time.  What an attempt of txn.commit() does is the engine's
\* choice, at the first attempt and at every later one.
CommitOutcomes == {"ok", "lmdb.Error", "other"}
\* the keys and values insert() is called with
InsertKeys == {"10.1/a", SpecialKey}

\* a retry policy that retries whatever the attempt raised
AfterAttempt_RetryAny(attempt, outcome) ==
    IF outcome = "ok" THEN "return"
    ELSE IF attempt >= StopAfterAttempt THEN "RetryError" ELSE "retry"
\* tenacity.retry(stop=stop_after_attempt(20),
\*                retry=retry_if_exception_type(lmdb.Error)) after one attempt
AfterAttempt(attempt, outcome) ==
    IF outcome = "ok" THEN "return"
    ELSE IF outcome # "lmdb.Error" THEN "raise"
    ELSE IF attempt >= StopAfterAttempt THEN "RetryError" ELSE "retry"

\* Inserter.insert up to the test of item_count: begin, put, count
InsertCall(key, value) ==
    /\ pc = "loop"
    /\ steps < MaxItems
    /\ LET s0 == IF txn.open THEN Cur ELSE InitTxn(Cur)
       IN /\ txn' = [s0.txn EXCEPT !.view = Put(s0.txn.view, key, value)]
          /\ open_txns' = s0.open_txns
    /\ item_count' = item_count + 1
    /\ steps' = steps + 1
    /\ IF CommitDue(item_count + 1)
       THEN pc' = "commit" /\ attempt_number' = 1 /\ site' = "insert"
       ELSE UNCHANGED <<pc, attempt_number, site>>
    /\ UNCHANGED <<db, most_recent_indexed, commit_frequency, mode, cur_item, raised,
                   runs, last_exit, hist_vars, rd_vars, last_error, codec_vars>>

\* Inserter.__exit__ up to the commit, and the end of main.run when no
\* transaction is open
ExitCall ==
    /\ pc = "exit"
    /\ IF txn.open
       THEN /\ pc' = "commit" /\ attempt_number' = 1 /\ site' = "exit"
            /\ UNCHANGED <<ins_vars, commit_frequency, mode, raised, last_exit>>
       ELSE /\ pc' = "idle"
            /\ last_exit' = IF raised THEN "error" ELSE "normal"
            /\ raised' = FALSE
            /\ item_count' = 0
            /\ most_recent_indexed' = Floor
            /\ commit_frequency' = 1
            /\ mode' = "create"
            /\ UNCHANGED <<db, txn, open_txns, attempt_number, site>>
    /\ UNCHANGED <<cur_item, runs, steps, hist_vars, rd_vars, last_error, codec_vars>>

\* one attempt of Inserter.commit and what tenacity does after it; a commit
\* that returns goes back to its caller (insert clears self.txn, __exit__
\* ends the run), one that raises leaves insert for __exit__, or ends the run
CommitAttempt(outcome) ==
    /\ pc = "commit"
    /\ LET result == IF ~txn.open THEN "other" ELSE outcome
           after == AfterAttempt(attempt_number, result)
           returns == after = "return"
           raises == after \in {"raise", "RetryError"}
           ends == site = "exit" /\ after # "retry"
       IN /\ last_error' = IF returns THEN "none"
                           ELSE IF after = "RetryError" THEN "RetryError" ELSE result
          /\ db' = IF returns THEN txn.view ELSE db
          /\ open_txns' = IF ends THEN 0 ELSE IF returns THEN open_txns - 1 ELSE open_txns
          /\ txn' = IF ends \/ returns THEN NoTxn ELSE txn
          /\ attempt_number' = IF after = "retry" THEN attempt_number + 1 ELSE 0
          /\ site' = IF after = "retry" THEN site ELSE "none"
          /\ pc' = IF after = "retry" THEN "commit"
                   ELSE IF site = "exit" THEN "idle"
                   ELSE IF returns THEN "loop" ELSE "exit"
          /\ raised' = IF ends THEN FALSE ELSE (raised \/ raises)
          /\ last_exit' = IF ~ends THEN last_exit
                          ELSE IF raises THEN "commit_error"
                          ELSE IF raised THEN "error" ELSE "normal"
          /\ item_count' = IF ends THEN 0 ELSE item_count
          /\ most_recent_indexed' = IF ends THEN Floor ELSE most_recent_indexed
          /\ commit_frequency' = IF ends THEN 1 ELSE commit_frequency
          /\ mode' = IF ends THEN "create" ELSE mode
    /\ UNCHANGED <<cur_item, runs, steps, hist_vars, rd_vars, codec_vars>>

NextCommit ==
    \/ \E m \in Modes, n \in 1..MaxFreq : StartRun(m, n) /\ UNCHANGED src_vars
    \/ \E key \in InsertKeys : \E value \in StoredValues(key) :
            InsertCall(key, value) /\ UNCHANGED src_vars
    \/ \E outcome \in CommitOutcomes : CommitAttempt(outcome) /\ UNCHANGED src_vars
    \/ SourceExhausted /\ UNCHANGED src_vars
    \/ SourceError /\ UNCHANGED src_vars
    \/ ExitCall /\ UNCHANGED src_vars

SpecCommit == Init /\ [][NextCommit]_vars

\* -------------------------------------------------------------- file spec
\* FileSource alone, over every directory of FileNames
InitFile ==
    /\ db = EmptyStore
    /\ txn = NoTxn
    /\ item_count = 0
    /\ open_txns = 0
    /\ most_recent_indexed = Floor
    /\ commit_frequency = 1
    /\ mode = "create"
    /\ pc = "idle"
    /\ cur_item = NoItem
    /\ raised = FALSE
    /\ runs = 0
    /\ steps = 0
    /\ last_exit = "none"
    /\ wm_high = NoTs
    /\ run_items = {}
    /\ batch_records = 0
    /\ existed = "none"
    /\ reader = ClosedReader
    /\ out = NoResult
    /\ snapshot = EmptyStore
    /\ attempt_number = 0
    /\ site = "none"
    /\ last_error = "none"
    /\ NoCodec
    /\ directory \in SUBSET FileNames
    /\ gz_paths = <<>>
    /\ start_from_file_num = 0
    /\ file_idx = 0
    /\ yielded = <<>>
    /\ file_state = "none"
    /\ segments = <<>>
    /\ pending = NoItem
    /\ crashed_in = 0
    /\ NoWeb

NextFile ==
    \/ \E start \in StartNums :
            NewFileSource(start)
            /\ UNCHANGED <<ins_vars, run_vars, hist_vars, rd_vars, ext_vars, bulk_vars, web_vars>>
    \/ NextData
       /\ UNCHANGED <<ins_vars, run_vars, hist_vars, rd_vars, ext_vars, bulk_vars, web_vars>>

SpecFile == InitFile /\ [][NextFile]_vars

\* -------------------------------------------------------------- bulk spec
\* A bulk load (CreateParams) over a directory of two files with one item
\* each, the death of the process at any point, and the restart from the file
\* that was in work.
BulkNames == {<<0>>, <<1>>}
BulkItems == {i \in Items : ~StartsWithDunder(i.doi)}

InitBulk ==
    /\ db = EmptyStore
    /\ txn = NoTxn
    /\ item_count = 0
    /\ open_txns = 0
    /\ most_recent_indexed = Floor
    /\ commit_frequency = 1
    /\ mode = "create"
    /\ pc = "idle"
    /\ cur_item = NoItem
    /\ raised = FALSE
    /\ runs = 0
    /\ steps = 0
    /\ last_exit = "none"
    /\ wm_high = NoTs
    /\ run_items = {}
    /\ batch_records = 0
    /\ existed = "none"
    /\ reader = ClosedReader
    /\ out = NoResult
    /\ snapshot = EmptyStore
    /\ attempt_number = 0
    /\ site = "none"
    /\ last_error = "none"
    /\ NoCodec
    /\ directory = BulkNames
    /\ gz_paths = <<>>
    /\ start_from_file_num = 0
    /\ file_idx = 0
    /\ yielded = <<>>
    /\ file_state = "none"
    /\ segments \in [BulkNames -> BulkItems]
    /\ pending = NoItem
    /\ crashed_in = 0
    /\ NoWeb

\* main.run of a bulk load: the first run starts from file 0, a run after the
\* death of the process from the file that was in work
BulkStart(n) ==
    /\ runs = 0 \/ last_exit = "crash"
    /\ StartRun("create", n)
    /\ NewFileSource(IF runs = 0 THEN 0 ELSE crashed_in)
    /\ UNCHANGED <<bulk_vars, web_vars>>

\* next(item_iterator): ItemSource.iter_item takes the data of the next file
\* and yields its item
BulkFetch ==
    /\ pc = "loop"
    /\ pending = NoItem
    /\ NextYield(gz_paths, file_idx, start_from_file_num) # 0
    /\ NextData
    /\ pending' = segments[gz_paths[NextYield(gz_paths, file_idx, start_from_file_num)]]
    /\ UNCHANGED <<ins_vars, run_vars, hist_vars, rd_vars, ext_vars, segments, crashed_in,
                   web_vars>>

\* next(item_iterator) raises StopIteration
BulkEnd ==
    /\ pending = NoItem
    /\ NextYield(gz_paths, file_idx, start_from_file_num) = 0
    /\ NextData
    /\ SourceExhausted
    /\ UNCHANGED <<bulk_vars, web_vars>>

\* item_inserter.insert_item(item=item)
BulkInsert(ok) ==
    /\ pending # NoItem
    /\ InsertRecord(pending, ok)
    /\ pending' = NoItem
    /\ UNCHANGED <<file_vars, segments, crashed_in, web_vars>>

\* the run ends and its FileSource with it
BulkExit(ok) ==
    /\ ExitScope(ok)
    /\ gz_paths' = <<>>
    /\ start_from_file_num' = 0
    /\ file_idx' = 0
    /\ yielded' = <<>>
    /\ file_state' = "none"
    /\ pending' = NoItem
    /\ UNCHANGED <<directory, segments, crashed_in, web_vars>>

\* the process dies; the file in work is the last one whose data was taken
BulkCrash ==
    /\ Crash
    /\ crashed_in' = IF yielded = <<>> THEN 0
                     ELSE FileNumFromPath(yielded[Len(yielded)])
    /\ gz_paths' = <<>>
    /\ start_from_file_num' = 0
    /\ file_idx' = 0
    /\ yielded' = <<>>
    /\ file_state' = "none"
    /\ pending' = NoItem
    /\ UNCHANGED <<directory, segments, web_vars>>

NextBulk ==
    \/ \E n \in 1..MaxFreq : BulkStart(n)
    \/ BulkFetch
    \/ BulkEnd
    \/ \E ok \in BOOLEAN : BulkInsert(ok)
    \/ \E ok \in BOOLEAN : WatermarkStep(ok) /\ UNCHANGED src_vars
    \/ \E ok \in BOOLEAN : BulkExit(ok)
    \/ BulkCrash

SpecBulk == InitBulk /\ [][NextBulk]_vars

\* the store an uninterrupted run leaves: insert_item of each item in turn,
\* every write committed
RECURSIVE LoadItems(_, _, _)
LoadItems(items, store, mri) ==
    IF items = <<>> THEN store
    ELSE LET item == Head(items)
             s1 == Put(store, item.doi, Compress(Mini(item)))
             ts == GetIndexedDatetime(item)
             adv == Advances(ts, mri)
         IN LoadItems(Tail(items),
                      IF adv THEN Put(s1, SpecialKey, Compress(Isoformat(ts))) ELSE s1,
                      IF adv THEN ts ELSE mri)
FullLoad ==
    LET paths == CHOOSE p \in SortedPaths(directory) : TRUE
    IN LoadItems([i \in DOMAIN paths |-> segments[paths[i]]], EmptyStore, Floor)

\* --------------------------------------------------------------- web spec
\* One incremental run (UpdateParams) against a remote whose answers to the
\* paged requests are drawn at the start.
FromDates == {Floor}
WriterVars == <<ins_vars, run_vars, hist_vars, rd_vars, ext_vars>>

InitWeb ==
    /\ db = EmptyStore
    /\ txn = NoTxn
    /\ item_count = 0
    /\ open_txns = 0
    /\ most_recent_indexed = Floor
    /\ commit_frequency = 1
    /\ mode = "create"
    /\ pc = "idle"
    /\ cur_item = NoItem
    /\ raised = FALSE
    /\ runs = 0
    /\ steps = 0
    /\ last_exit = "none"
    /\ wm_high = NoTs
    /\ run_items = {}
    /\ batch_records = 0
    /\ existed = "none"
    /\ reader = ClosedReader
    /\ out = NoResult
    /\ snapshot = EmptyStore
    /\ attempt_number = 0
    /\ site = "none"
    /\ last_error = "none"
    /\ NoCodec
    /\ directory = {}
    /\ gz_paths = <<>>
    /\ start_from_file_num = 0
    /\ file_idx = 0
    /\ yielded = <<>>
    /\ file_state = "none"
    /\ segments = <<>>
    /\ pending = NoItem
    /\ crashed_in = 0
    /\ server \in [1..MaxPages -> Responses]
    /\ web_pc = "new"
    /\ cursor = Wildcard
    /\ requests = <<>>
    /\ message = NoResponse
    /\ page_items = <<>>
    /\ from_date = Floor
    /\ web_error = "none"
    /\ filter_func = NoFilter
    /\ emitted = <<>>

\* main.run of an update: WebSource.__init__ and the Inserter
WebStart(n, d) ==
    /\ runs = 0
    /\ StartRun("update", n)
    /\ from_date' = d
    /\ UNCHANGED <<file_vars, bulk_vars, server, web_pc, cursor, requests, message,
                   page_items, web_error, filter_func, emitted>>

\* iter_item reads total_items: _request_total_items; then the generator of
\* iter_unfiltered_items_data starts with cursor = "*"
WebProbe ==
    /\ pc = "loop"
    /\ web_pc = "new"
    /\ requests' = Append(requests,
                          [by |-> "total", query |-> FormQuery(from_date, Wildcard, 1, TRUE)])
    /\ cursor' = Wildcard
    /\ web_pc' = "query"
    /\ UNCHANGED <<WriterVars, file_vars, bulk_vars, server, message, page_items,
                   from_date, web_error, filter_func, emitted>>

\* the exception one response ends the stream with: data["message"] and the
\* isinstance test in iter_unfiltered_items_data, then json_data["items"] and
\* the isinstance test in prepare_json_items
ShapeError(r) ==
    IF r.msg = "absent" THEN "KeyError"
    ELSE IF r.msg # "object" THEN "ValueError"
    ELSE IF r.items = "absent" THEN "KeyError"
    ELSE IF r.items # "array" THEN "ValueError"
    ELSE "none"

\* one turn of the while loop up to the yield, and iter_item taking the
\* yielded message through prepare_json_items
WebCall ==
    /\ pc = "loop"
    /\ web_pc = "query"
    /\ NPages < MaxPages + 1
    /\ LET r == Respond(NPages + 1)
           err == ShapeError(r)
       IN /\ requests' = Append(requests,
                    [by |-> "page", query |-> FormQuery(from_date, cursor, NRows, FALSE)])
          /\ message' = IF r.msg = "object" THEN r ELSE message
          /\ web_error' = err
          /\ IF err # "none"
             THEN /\ web_pc' = "failed"
                  /\ page_items' = <<>>
                  /\ SourceError
             ELSE /\ web_pc' = "page"
                  /\ page_items' = r.docs
                  /\ UNCHANGED WriterVars
    /\ UNCHANGED <<file_vars, bulk_vars, server, cursor, from_date, filter_func, emitted>>

\* an iter_item that yields what filter_func rejects
IterItemStep_NoFilter(item, f) ==
    IF item = NotObject THEN "raise"
    ELSE IF item.doi = NoDoi THEN "skip"
    ELSE "yield"
\* ItemSource.iter_item, the body of "for item in json_items": ValueError for
\* an item that is no Object, no yield for one without a DOI or one that
\* filter_func rejects
IterItemStep(item, f) ==
    IF item = NotObject THEN "raise"
    ELSE IF item.doi = NoDoi THEN "skip"
    ELSE IF f.on /\ item.doi \notin f.accept THEN "skip"
    ELSE "yield"

\* iter_item: the next item of json_items
WebYield ==
    /\ pc = "loop"
    /\ web_pc = "page"
    /\ pending = NoItem
    /\ page_items # <<>>
    /\ page_items' = Tail(page_items)
    /\ LET item == Head(page_items)
           step == IterItemStep(item, filter_func)
       IN IF step = "raise"
          THEN /\ web_pc' = "failed"
               /\ web_error' = "ValueError"
               /\ SourceError
               /\ UNCHANGED <<pending, emitted>>
          ELSE /\ pending' = IF step = "yield" THEN item ELSE NoItem
               /\ emitted' = IF step = "yield" THEN Append(emitted, item) ELSE emitted
               /\ UNCHANGED <<WriterVars, web_pc, web_error>>
    /\ UNCHANGED <<file_vars, segments, crashed_in, server, cursor, requests, message,
                   from_date, filter_func>>

\* item_inserter.insert_item(item=item)
WebInsert(ok) ==
    /\ pending # NoItem
    /\ InsertRecord(pending, ok)
    /\ pending' = NoItem
    /\ UNCHANGED <<file_vars, segments, crashed_in, web_vars>>

\* a source that goes on to the next page while items of this one remain
PageDone_Eager(items, pend) == pend = NoItem
\* iter_item asks iter_unfiltered_items_data for the next data only when
\* "for item in json_items" has ended, and each yield of that loop returns
\* only when the caller asks for the next item
PageDone(items, pend) == items = <<>> /\ pend = NoItem

\* the generator resumes after the yield: the items test, more_pages, the
\* break, the next cursor
WebResume ==
    /\ pc = "loop"
    /\ web_pc = "page"
    /\ PageDone(page_items, pending)
    /\ IF ~MorePages(Len(message.docs))
       THEN /\ web_pc' = "done"
            /\ SourceExhausted
            /\ UNCHANGED <<cursor, web_error>>
       ELSE IF NextCursor(message) = NoCursor
       THEN /\ web_pc' = "failed"
            /\ web_error' = "KeyError"
            /\ SourceError
            /\ UNCHANGED cursor
       ELSE /\ web_pc' = "query"
            /\ cursor' = NextCursor(message)
            /\ UNCHANGED <<WriterVars, web_error>>
    /\ UNCHANGED <<file_vars, bulk_vars, server, requests, message, page_items, from_date,
                   filter_func, emitted>>

NextWeb ==
    \/ \E n \in 1..MaxFreq, d \in FromDates : WebStart(n, d)
    \/ WebProbe
    \/ WebCall
    \/ WebYield
    \/ \E ok \in BOOLEAN : WebInsert(ok)
    \/ \E ok \in BOOLEAN : WatermarkStep(ok) /\ UNCHANGED src_vars
    \/ WebResume
    \/ \E ok \in BOOLEAN : ExitScope(ok) /\ UNCHANGED src_vars

SpecWeb == InitWeb /\ [][NextWeb]_vars

\* --------------------------------------------------------------- run spec
\* One run of main.run to its end, a bulk load over the segment files or an
\* update against the remote, the process not being terminated. main.run is
\* one thread of control: as long as it has a next step it takes it.
InitRun == InitBulk \/ InitWeb

NextRun ==
    \/ \E n \in 1..MaxFreq : directory # {} /\ BulkStart(n)
    \/ \E n \in 1..MaxFreq, d \in FromDates : server # <<>> /\ WebStart(n, d)
    \/ mode = "create" /\ BulkFetch
    \/ mode = "create" /\ BulkEnd
    \/ \E ok \in BOOLEAN : mode = "create" /\ BulkInsert(ok)
    \/ mode = "update" /\ WebProbe
    \/ mode = "update" /\ WebCall
    \/ mode = "update" /\ WebYield
    \/ \E ok \in BOOLEAN : mode = "update" /\ WebInsert(ok)
    \/ mode = "update" /\ WebResume
    \/ \E ok \in BOOLEAN : WatermarkStep(ok) /\ UNCHANGED src_vars
    \/ \E ok \in BOOLEAN : BulkExit(ok)

SpecRun == InitRun /\ [][NextRun]_vars /\ WF_vars(NextRun)

\* ------------------------------------------------------------- codec spec
\* The two halves of the codec applied to any byte string: a JSON text, an
\* isoformat text or other bytes, bare or inside up to MaxWraps zlib streams.
MaxWraps == 1
Streams == [level : 0..9, trailing : BOOLEAN]
RECURSIVE SeqsUpTo(_, _)
SeqsUpTo(S, n) ==
    IF n = 0 THEN {<<>>}
    ELSE SeqsUpTo(S, n - 1) \cup {<<x>> \o s : x \in S, s \in SeqsUpTo(S, n - 1)}
Contents == {Mini([doi |-> "10.1/a", ts |-> 1]), Isoformat(1),
             [z |-> <<>>, enc |-> "bytes", doi |-> NoDoi, ts |-> NoTs]}
ByteStrings == {[c EXCEPT !.z = w] : c \in Contents, w \in SeqsUpTo(Streams, MaxWraps)}

InitCodec ==
    /\ db = EmptyStore
    /\ txn = NoTxn
    /\ item_count = 0
    /\ open_txns = 0
    /\ most_recent_indexed = Floor
    /\ commit_frequency = 1
    /\ mode = "create"
    /\ pc = "idle"
    /\ cur_item = NoItem
    /\ raised = FALSE
    /\ runs = 0
    /\ steps = 0
    /\ last_exit = "none"
    /\ wm_high = NoTs
    /\ run_items = {}
    /\ batch_records = 0
    /\ existed = "none"
    /\ reader = ClosedReader
    /\ out = NoResult
    /\ snapshot = EmptyStore
    /\ attempt_number = 0
    /\ site = "none"
    /\ last_error = "none"
    /\ NoSource
    /\ codec_in \in ByteStrings
    /\ codec_level = 0 - 1
    /\ codec_out = codec_in
    /\ codec_op = "none"

\* zlib.compress(item_bytes, level=self.compression_level)
CodecCompress(level) ==
    /\ codec_op = "none"
    /\ codec_level' = level
    /\ codec_out' = ZlibCompress(codec_in, level)
    /\ codec_op' = "compress"
    /\ UNCHANGED <<codec_in, ins_vars, run_vars, hist_vars, rd_vars, cm_vars, src_vars>>

\* DBReader._extract_value(raw_value) of the bytes in hand
CodecExtract ==
    /\ codec_op \in {"none", "compress"}
    /\ codec_out' = ExtractValue(codec_out)
    /\ codec_op' = IF codec_op = "none" THEN "extract" ELSE "compress-extract"
    /\ UNCHANGED <<codec_in, codec_level, ins_vars, run_vars, hist_vars, rd_vars, cm_vars,
                   src_vars>>

NextCodec ==
    \/ \E level \in Levels : CodecCompress(level)
    \/ CodecExtract

SpecCodec == InitCodec /\ [][NextCodec]_vars

\* ------------------------------------------------------------- items spec
\* ItemSource.iter_item over two batches of any items, with or without a
\* filter_func, its caller taking each item as it is yielded.
MaxBatch == 3
Candidates == {[doi |-> "10.1/a", ts |-> 1], [doi |-> "10.1/b", ts |-> NoTs], NoItem, NotObject}
Filters == {NoFilter, [on |-> TRUE, accept |-> {"10.1/a"}], [on |-> TRUE, accept |-> {}]}
Batch(items) == [msg |-> "object", items |-> "array", docs |-> items, next |-> "c2"]
ItemServers ==
    {[k \in 1..MaxPages |-> IF k = 1 THEN Batch(first)
                            ELSE IF k = 2 THEN Batch(second) ELSE LastPage] :
        first \in SeqsUpTo(Candidates, MaxBatch), second \in SeqsUpTo(Candidates, 1)}

InitItems ==
    /\ db = EmptyStore
    /\ txn = NoTxn
    /\ item_count = 0
    /\ open_txns = 0
    /\ most_recent_indexed = Floor
    /\ commit_frequency = 1
    /\ mode = "create"
    /\ pc = "idle"
    /\ cur_item = NoItem
    /\ raised = FALSE
    /\ runs = 0
    /\ steps = 0
    /\ last_exit = "none"
    /\ wm_high = NoTs
    /\ run_items = {}
    /\ batch_records = 0
    /\ existed = "none"
    /\ reader = ClosedReader
    /\ out = NoResult
    /\ snapshot = EmptyStore
    /\ attempt_number = 0
    /\ site = "none"
    /\ last_error = "none"
    /\ NoCodec
    /\ directory = {}
    /\ gz_paths = <<>>
    /\ start_from_file_num = 0
    /\ file_idx = 0
    /\ yielded = <<>>
    /\ file_state = "none"
    /\ segments = <<>>
    /\ pending = NoItem
    /\ crashed_in = 0
    /\ server \in ItemServers
    /\ web_pc = "new"
    /\ cursor = Wildcard
    /\ requests = <<>>
    /\ message = NoResponse
    /\ page_items = <<>>
    /\ from_date = Floor
    /\ web_error = "none"
    /\ filter_func \in Filters
    /\ emitted = <<>>

\* the caller of iter_item takes the item
ItemTake ==
    /\ pc = "loop"
    /\ pending # NoItem
    /\ pending' = NoItem
    /\ UNCHANGED <<WriterVars, file_vars, segments, crashed_in, web_vars>>

NextItems ==
    \/ \E d \in FromDates : WebStart(1, d)
    \/ WebProbe
    \/ WebCall
    \/ WebYield
    \/ ItemTake
    \/ WebResume

SpecItems == InitItems /\ [][NextItems]_vars

\* ------------------------------------------------------------ insert spec
\* One run whose loop hands insert_item any item, with or without a DOI.
NoDoiItems == {[doi |-> NoDoi, ts |-> ts] : ts \in Stamps}

\* a test that finds a DOI in every item
HasDoi_Always(item) == TRUE
\* Inserter.insert_item: doi = str(item["DOI"]) does not raise KeyError
HasDoi(item) == item.doi # NoDoi

\* Inserter.insert_item of an item without a DOI: the warning and the return
SkipRecord(item) ==
    /\ pc = "loop"
    /\ steps < MaxItems
    /\ steps' = steps + 1
    /\ cur_item' = item
    /\ existed' = "none"
    /\ UNCHANGED <<ins_vars, commit_frequency, mode, pc, raised, runs, last_exit,
                   wm_high, run_items, batch_records, rd_vars, ext_vars>>

\* Inserter.insert_item up to the first insert()
InsertItem(item, ok) ==
    IF HasDoi(item) THEN InsertRecord(item, ok) ELSE SkipRecord(item)

NextInsert ==
    \/ \E n \in 1..MaxFreq : runs = 0 /\ StartRun("create", n) /\ UNCHANGED src_vars
    \/ \E item \in BulkItems \cup NoDoiItems, ok \in BOOLEAN :
            InsertItem(item, ok) /\ UNCHANGED src_vars
    \/ \E ok \in BOOLEAN : WatermarkStep(ok) /\ UNCHANGED src_vars
    \/ SourceExhausted /\ UNCHANGED src_vars
    \/ \E ok \in BOOLEAN : ExitScope(ok) /\ UNCHANGED src_vars

SpecInsert == Init /\ [][NextInsert]_vars

\* ------------------------------------------------------------ params spec
\* main.run with the commit_frequency of any Params that __post_init__ let
\* through.
Freqs == (0 - 1)..MaxFreq
\* Params._do_validation: the errors it finds in commit_frequency
DoValidation(freq) == {}

\* Params.__post_init__ raises ValueError if any(errors); main.run follows
ParamsRun(m, n) ==
    /\ runs = 0
    /\ DoValidation(n) = {}
    /\ StartRun(m, n)

NextParams ==
    \/ \E m \in Modes, n \in Freqs : ParamsRun(m, n) /\ UNCHANGED src_vars
    \/ \E item \in BulkItems, ok \in BOOLEAN : InsertRecord(item, ok) /\ UNCHANGED src_vars
    \/ \E ok \in BOOLEAN : WatermarkStep(ok) /\ UNCHANGED src_vars
    \/ SourceExhausted /\ UNCHANGED src_vars
    \/ \E ok \in BOOLEAN : ExitScope(ok) /\ UNCHANGED src_vars

SpecParams == Init /\ [][NextParams]_vars

\* ---------------------------------------------------------- snapshot spec
\* One bulk load with a DBReader of another process opened, used and closed
\* at any point of it.
SnapKeys == {"10.1/a", "10.1/b"}

NextSnapshot ==
    \/ \E n \in 1..MaxFreq : runs = 0 /\ StartRun("create", n) /\ UNCHANGED src_vars
    \/ \E item \in BulkItems, ok \in BOOLEAN : InsertRecord(item, ok) /\ UNCHANGED src_vars
    \/ \E ok \in BOOLEAN : WatermarkStep(ok) /\ UNCHANGED src_vars
    \/ SourceExhausted /\ UNCHANGED src_vars
    \/ \E ok \in BOOLEAN : ExitScope(ok) /\ UNCHANGED src_vars
    \/ ReaderOpen /\ UNCHANGED src_vars
    \/ ReaderClose /\ UNCHANGED src_vars
    \/ ReaderIter /\ UNCHANGED src_vars
    \/ ReaderNext /\ UNCHANGED src_vars
    \/ \E key \in SnapKeys : ReaderGet(key) /\ UNCHANGED src_vars
    \/ ReaderLen /\ UNCHANGED src_vars

SpecSnapshot == Init /\ [][NextSnapshot]_vars

\* ------------------------------------------------------------ reader spec
InitReader ==
    /\ db \in Stores
    /\ txn = NoTxn
    /\ item_count = 0
    /\ open_txns = 0
    /\ most_recent_indexed = Floor
    /\ commit_frequency = 1
    /\ mode = "create"
    /\ pc = "idle"
    /\ cur_item = NoItem
    /\ raised = FALSE
    /\ runs = 0
    /\ steps = 0
    /\ last_exit = "none"
    /\ wm_high = NoTs
    /\ run_items = {}
    /\ batch_records = 0
    /\ existed = "none"
    /\ reader = ClosedReader
    /\ out = NoResult
    /\ snapshot = EmptyStore
    /\ attempt_number = 0
    /\ site = "none"
    /\ last_error = "none"
    /\ NoCodec
    /\ NoSource

NextReader ==
    \/ ReaderOpen /\ UNCHANGED src_vars
    \/ ReaderClose /\ UNCHANGED src_vars
    \/ ReaderIter /\ UNCHANGED src_vars
    \/ ReaderNext /\ UNCHANGED src_vars
    \/ \E key \in Keys : ReaderGet(key) /\ UNCHANGED src_vars
    \/ ReaderLen /\ UNCHANGED src_vars
    \/ ReaderWatermark /\ UNCHANGED src_vars
    \/ ReaderScan /\ UNCHANGED src_vars

SpecReader == InitReader /\ [][NextReader]_vars

\* ------------------------------------------------------------ decode spec
\* A reader on a store that something else than the Inserter has written:
\* under a DOI stands a compressed item, a bare item, or bytes that do not
\* decode to an Object (a text, other bytes, an item compressed twice).
DecodeKeys == {"10.1/a", "10.1/b"}
DecodeValues ==
    Contents \cup {Compress(c) : c \in Contents}
        \cup {Compress(Compress(Mini([doi |-> "10.1/a", ts |-> 1])))}
DecodeStores == UNION {[ks -> DecodeValues] : ks \in SUBSET DecodeKeys}

InitDecode ==
    /\ db \in DecodeStores
    /\ txn = NoTxn
    /\ item_count = 0
    /\ open_txns = 0
    /\ most_recent_indexed = Floor
    /\ commit_frequency = 1
    /\ mode = "create"
    /\ pc = "idle"
    /\ cur_item = NoItem
    /\ raised = FALSE
    /\ runs = 0
    /\ steps = 0
    /\ last_exit = "none"
    /\ wm_high = NoTs
    /\ run_items = {}
    /\ batch_records = 0
    /\ existed = "none"
    /\ reader = ClosedReader
    /\ out = NoResult
    /\ snapshot = EmptyStore
    /\ attempt_number = 0
    /\ site = "none"
    /\ last_error = "none"
    /\ NoCodec
    /\ NoSource

SpecDecode == InitDecode /\ [][NextReader]_vars

\* ------------------------------------------------------------ resume spec
\* The lower bound of an update, main.get_from_date, on the stores a bulk
\* load leaves.
\* the dates a caller supplies, both after the date of every watermark, so
\* that an earlier lower bound is one that was read from the store
SuppliedDates == {Strftime(MaxTs) + 1, Strftime(MaxTs) + 2}

\* main.get_from_date
GetFromDate(store, supplied) ==
    IF supplied = NoDate
    THEN LET r == MostRecentIndexed(store)
         IN IF r.status # "ok" THEN [status |-> "error", from_date |-> NoDate]
            ELSE IF ~IsIsoText(r.text) THEN [status |-> "ValueError", from_date |-> NoDate]
            ELSE [status |-> "ok", from_date |-> Strftime(r.text.ts)]
    ELSE [status |-> "ok", from_date |-> supplied]

\* UpdateParams is built with the from_date of the command line
UpdateParams(supplied) ==
    /\ pc = "idle"
    /\ web_pc = "new"
    /\ web_pc' = "params"
    /\ from_date' = supplied
    /\ UNCHANGED <<WriterVars, file_vars, bulk_vars, server, cursor, requests, message,
                   page_items, web_error, filter_func, emitted>>

\* main.run of an update calls get_from_date
GetFromDateStep ==
    /\ pc = "idle"
    /\ web_pc = "params"
    /\ LET r == GetFromDate(db, from_date)
       IN IF r.status = "ok"
          THEN /\ web_pc' = "dated"
               /\ from_date' = r.from_date
               /\ UNCHANGED web_error
          ELSE /\ web_pc' = "failed"
               /\ web_error' = r.status
               /\ UNCHANGED from_date
    /\ UNCHANGED <<WriterVars, file_vars, bulk_vars, server, cursor, requests, message,
                   page_items, filter_func, emitted>>

ResumeItems == BulkItems \cup {[doi |-> SpecialKey, ts |-> NoTs]}

NextResume ==
    \/ \E n \in 1..MaxFreq : runs = 0 /\ StartRun("create", n) /\ UNCHANGED src_vars
    \/ \E item \in ResumeItems, ok \in BOOLEAN : InsertRecord(item, ok) /\ UNCHANGED src_vars
    \/ \E ok \in BOOLEAN : WatermarkStep(ok) /\ UNCHANGED src_vars
    \/ SourceExhausted /\ UNCHANGED src_vars
    \/ \E ok \in BOOLEAN : ExitScope(ok) /\ UNCHANGED src_vars
    \/ \E supplied \in SuppliedDates \cup {NoDate} : UpdateParams(supplied)
    \/ GetFromDateStep

SpecResume == Init /\ [][NextResume]_vars

\* ================================================================= claims
MaxOf(S) == CHOOSE x \in S : \A y \in S : y <= x
\* the indexed timestamps of the items of a set that carry one
StampsOf(items) == {i.ts : i \in {j \in items : j.ts # NoTs}}
\* the first run on the empty store has ended normally
FirstRunDone == pc = "idle" /\ runs = 1 /\ last_exit = "normal"
\* the view of the write path in the next state
ViewOf(d, t) == IF t.open THEN t.view ELSE d
\* the greatest indexed timestamp among the items a reader can see
VisibleStamps(store) ==
    {ExtractValue(store[k]).ts : k \in {x \in DOMAIN store \ {SpecialKey} :
                                        ExtractValue(store[x]).ts # NoTs}}

\* C1: after a run that starts from the empty store and ends normally, the
\* most_recent_indexed a reader returns is the greatest indexed timestamp
\* among the items that were inserted and had one.
C1_WatermarkIsMaxIngested ==
    (FirstRunDone /\ StampsOf(run_items) # {}) =>
        /\ MostRecentIndexed(db).status = "ok"
        /\ MostRecentIndexed(db).text = Isoformat(MaxOf(StampsOf(run_items)))

\* C2: the committed watermark is never smaller than a watermark committed
\* earlier, within a run and from one run to the next.
C2_WatermarkNeverDecreases ==
    WatermarkTs(db) # NoTs => WatermarkTs(db) >= wm_high

\* C3: in every committed store the watermark is not greater than the
\* greatest indexed timestamp among the visible items; stated here for the
\* first run while it was delivered no item named like the reserved key.
C3_WatermarkWithinVisible ==
    (runs = 1 /\ pc # "idle" /\ WatermarkTs(db) # NoTs
        /\ \A i \in run_items : i.doi # SpecialKey) =>
        /\ VisibleStamps(db) # {}
        /\ WatermarkTs(db) <= MaxOf(VisibleStamps(db))

\* no two items of the set share a DOI
UniqueIds(items) == \A i, j \in items : i.doi = j.doi => i = j
GetsOriginal(item) == GetItem(db, item.doi) = Result("get", item.doi, "ok", item, 0)

C5_LengthCountsIdentifiers ==
    Length(db) = Cardinality(DOMAIN db \ {SpecialKey})

\* C6: in a bulk load (the skip policy), the put of a DOI that is already
\* stored with other content leaves the stored value as it was.
C6_SkipKeepsStoredValue ==
    (pc = "wm" /\ mode = "create" /\ existed = "different") =>
        CurView[cur_item.doi] # Compress(Mini(cur_item))

\* C7: in an update (the replace policy), the put of a DOI that is already
\* stored with other content leaves the new value under the DOI and the
\* number of entries, hence len(), as it was.
C7_ReplaceOverwrites ==
    [][(/\ pc = "loop" /\ item_count' = item_count + 1 /\ mode = "update"
        /\ Found(CurView, cur_item'.doi, Compress(Mini(cur_item'))) = "different")
       => /\ ViewOf(db', txn')[cur_item'.doi] = Compress(Mini(cur_item'))
          /\ Length(ViewOf(db', txn')) = Length(CurView)]_vars

\* C7 witness: an update has just put an item over other content
C7_Witness == pc = "wm" /\ mode = "update" /\ existed = "different"

\* C8: no reader call shows the reserved key: __next__ never returns it,
\* reader["__most_recent_indexed"] raises KeyError, and len() leaves the
\* reserved entry out of its count.
C8_ReservedKeyHidden ==
    /\ (out.op = "next" /\ out.status = "ok") => out.key # SpecialKey
    /\ (out.op = "get" /\ out.key = SpecialKey) => out.status = "KeyError"
    /\ (out.op = "len" /\ SpecialKey \in DOMAIN db) =>
            out.n = Cardinality(DOMAIN db \ {SpecialKey})

\* C8 witness: the iteration went past the reserved entry and returned the
\* key stored after it
C8_Witness ==
    /\ SpecialKey \in DOMAIN db
    /\ out.op = "next" /\ out.status = "ok" /\ out.key = "__x"

\* C9: reader[doi] for a DOI that is not stored raises KeyError.
C9_AbsentKeyIsKeyError ==
    (out.op = "get" /\ out.key \notin DOMAIN db) => out.status = "KeyError"

\* C10: a commit made by insert() closes a batch of exactly
\* commit_frequency record writes (DOIs).
C10_BatchHoldsNRecords ==
    [][(/\ pc \in {"loop", "wm"} /\ item_count' = item_count + 1
        /\ ~txn'.open /\ ~raised')
       => batch_records + (IF pc = "loop" THEN 1 ELSE 0) = commit_frequency]_vars

\* C11: every exit from the with block other than the death of the process
\* ends in Inserter.__exit__: a transaction that is still open is committed
\* there, and when the commit succeeds the store holds every staged write,
\* whether the loop ended or an exception left it; when no transaction is
\* open the store is left as it is and no commit can fail.
C11_ExitCommitsOpenTxn ==
    [][(pc = "exit" /\ pc' = "idle" /\ last_exit' # "crash") =>
          /\ (txn.open /\ last_exit' # "commit_error") => db' = txn.view
          /\ last_exit' = "commit_error" => (txn.open /\ db' = db)
          /\ ~txn.open => db' = db]_vars

\* C11 witness: an exception ended the loop while record writes were staged,
\* and the commit of __exit__ made them durable
C11_Witness ==
    /\ pc = "idle" /\ last_exit = "error" /\ runs = 1
    /\ batch_records > 0 /\ DOMAIN db # {}

\* C12: a commit is attempted again only after an attempt that raised
\* lmdb.Error and only while fewer than StopAfterAttempt attempts were made,
\* and a failed attempt writes nothing; any other exception, and the
\* RetryError after the last attempt, leaves the commit at once; from then on
\* the run handles no further put and does not end normally.
C12_RetryOnlyTransient ==
    /\ [](attempt_number <= StopAfterAttempt)
    /\ [][/\ ((pc = "commit" /\ attempt_number' = attempt_number + 1)
                => (/\ last_error' = "lmdb.Error"
                    /\ attempt_number < StopAfterAttempt
                    /\ db' = db))
           /\ ((pc = "commit" /\ last_error' = "other")
                => (pc' # "commit" /\ (raised' \/ last_exit' = "commit_error")))
           /\ ((pc = "commit" /\ last_error' = "RetryError")
                => (/\ attempt_number = StopAfterAttempt
                    /\ pc' # "commit"
                    /\ (raised' \/ last_exit' = "commit_error")))
           /\ (raised => (steps' = steps /\ item_count' \in {item_count, 0}))
           /\ ((raised /\ pc' = "idle")
                => last_exit' \in {"error", "commit_error"})]_vars

\* C12 witness: the commit made by insert was given up after the last
\* attempt, and the exception is on its way to __exit__
C12_Witness ==
    /\ pc = "exit" /\ raised /\ last_error = "RetryError" /\ txn.open
    /\ item_count > 0

\* C13: the reserved entry is staged in the transaction that holds the record
\* which advanced it: when insert_item puts the reserved entry, the
\* transaction of the record put is still open.
C13_WatermarkSharesCommit ==
    [][(pc = "wm" /\ item_count' = item_count + 1) => txn.open]_vars

\* C14: the environment never has more than one write transaction of the
\* Inserter, the Inserter holds a transaction exactly when one is open, and
\* after a put whose commit succeeded it holds none.
C14_OneWriteTxn ==
    /\ [](open_txns <= 1 /\ (txn.open <=> open_txns = 1))
    /\ [][(pc \in {"loop", "wm"} /\ item_count' = item_count + 1 /\ ~raised'
            /\ item_count' % commit_frequency = 0)
           => (~txn'.open /\ open_txns' = 0)]_vars

\* C14 witness: after a commit of this run a later put has begun the next
\* transaction
C14_Witness ==
    /\ runs = 1 /\ pc \in {"loop", "wm"} /\ DOMAIN db # {}
    /\ txn.open /\ open_txns = 1 /\ txn.view # db

\* the file numbers along a sequence of files never go down
Ascending(paths) ==
    \A i, j \in DOMAIN paths :
        i < j => FileNumFromPath(paths[i]) <= FileNumFromPath(paths[j])
FilesOf(paths) == {paths[i] : i \in DOMAIN paths}

\* C16: the files are held, and their data is yielded, in ascending order of
\* the integer in the file name, whatever files the directory holds.
C16_NumericOrder == Ascending(gz_paths) /\ Ascending(yielded)

\* C16 witness: the files 0, 2, 9 and 10 were yielded in this order
C16_Witness ==
    /\ file_state = "done"
    /\ yielded = << <<0>>, <<2>>, <<9>>, <<1, 0>> >>

\* C17: no file whose number is below start_from_file_num is ever yielded,
\* and when the generator ends it has yielded every file of the directory
\* whose number is at least start_from_file_num, once each, in ascending
\* order.
C17_ResumeThreshold ==
    /\ \A i \in DOMAIN yielded :
          FileNumFromPath(yielded[i]) >= start_from_file_num
    /\ file_state = "done" =>
          /\ FilesOf(yielded) =
               {f \in directory : FileNumFromPath(f) >= start_from_file_num}
          /\ Len(yielded) = Cardinality(FilesOf(yielded))
          /\ Ascending(yielded)

\* C17 witness: started from 1 in a directory that holds file 0, the
\* generator ended after files 1 and 2
C17_Witness ==
    /\ file_state = "done" /\ start_from_file_num = 1
    /\ directory = {<<0>>, <<1>>, <<2>>}
    /\ yielded = << <<1>>, <<2>> >>

\* C15: a bulk load that was restarted, after the death of the process, from
\* the file that was in work, and that ended normally, leaves the store an
\* uninterrupted bulk load over the same files leaves: the same entries and
\* the same watermark.
C15_RestartEqualsFullLoad ==
    (pc = "idle" /\ runs = 2 /\ last_exit = "normal") => db = FullLoad

\* the well-formed responses received so far that hold no item / some item
IsEmptyPage(r) == ShapeError(r) = "none" /\ r.docs = <<>>
SawEmpty == \E i \in 1..NPages : IsEmptyPage(Respond(i))
NonEmptyPages ==
    Cardinality({i \in 1..NPages : ShapeError(Respond(i)) = "none" /\ Respond(i).docs # <<>>})

\* C18: the stream of the WebSource ends at the first response with zero
\* items: once such a response has been received no further query is made
\* and the cursor never changes again (the next-cursor of that response is
\* not used), the generator can only finish, and when it has finished the
\* number of paged queries is the number of non-empty pages plus one.
C18_StopsAtEmptyPage ==
    /\ [](web_pc = "done" => NPages = NonEmptyPages + 1)
    /\ [](SawEmpty => (web_pc \in {"page", "done"} /\ page_items = <<>> /\ pending = NoItem))
    /\ [][SawEmpty => (requests' = requests /\ cursor' = cursor)]_vars
\* the run is over after two paged queries, the second answered with zero
\* items and a next-cursor, while the remote had a third, non-empty page
C18_Witness ==
    /\ pc = "idle" /\ web_pc = "done" /\ NPages = 2
    /\ IsEmptyPage(server[2]) /\ server[2].next \in Tokens
    /\ ShapeError(server[3]) = "none" /\ server[3].docs # <<>>

\* C19: the first paged query carries the cursor "*", every later one the
\* next-cursor of the response to the paged query before it, and every paged
\* query asks for sort=indexed, order=asc.
C19_CursorChain ==
    \A i \in 1..NPages :
        /\ PageRequests[i].query.cursor =
              (IF i = 1 THEN Wildcard ELSE Respond(i - 1).next)
        /\ PageRequests[i].query.cursor # NoCursor
        /\ PageRequests[i].query.sort = "indexed"
        /\ PageRequests[i].query.order = "asc"
\* three paged queries whose cursors are "*", then two different tokens
C19_Witness ==
    /\ NPages = 3
    /\ PageRequests[1].query.cursor = Wildcard
    /\ PageRequests[2].query.cursor = "c2"
    /\ PageRequests[3].query.cursor = "c1"

\* a response without the structure the loop reads
Malformed(r) == ShapeError(r) # "none" \/ (r.docs # <<>> /\ r.next = NoCursor)
\* the DOIs of the items of the responses before the k-th
EarlierDois(k) ==
    UNION {{Respond(j).docs[i].doi : i \in 1..Len(Respond(j).docs)} : j \in 1..(k - 1)}

\* C20: when the stream ended on a response that lacked the message object,
\* the items array, or the next-cursor of a non-empty page, the run has failed
\* and the store holds no record of that response.
C20_MalformedPageRejected ==
    (pc = "idle" /\ runs = 1 /\ web_pc = "failed" /\ Malformed(Respond(NPages)))
        => /\ last_exit \in {"error", "commit_error"}
           /\ \A i \in 1..Len(Respond(NPages).docs) :
                 LET doi == Respond(NPages).docs[i].doi
                 IN doi \in DOMAIN db => doi \in EarlierDois(NPages)

\* C21: extracting what zlib.compress made of a byte string, at any level
\* from -1 to 9, gives the byte string back, and extracting a byte string
\* that zlib.decompress rejects gives that byte string.
C21_CodecRoundTrip ==
    /\ (codec_op = "compress-extract") => (codec_out = codec_in)
    /\ (codec_op = "extract" /\ ZlibDecompress(codec_in).status # "ok")
            => (codec_out = codec_in)
\* a byte string that is itself a zlib stream came back from the round trip
\* at level 0
C21_Witness ==
    /\ codec_op = "compress-extract"
    /\ codec_level = 0
    /\ codec_in.z # <<>>
    /\ codec_out = codec_in

\* C22: what an open reader returns is what the store held when the reader
\* was opened: len() counts the entries of that store, reader[doi] is the
\* entry of that store, and iteration yields no key that only a later commit
\* brought.
C22_ReaderSeesOpenSnapshot ==
    reader.open =>
        /\ (out.op = "len") => (out.n = Length(snapshot))
        /\ (out.op = "get") => (out = GetItem(snapshot, out.key))
        /\ (out.op = "next" /\ out.status = "ok") =>
                (out.key \in DOMAIN snapshot \/ out.key \notin DOMAIN db)

\* the items of the batches received so far, in order, and those of them
\* the loop of iter_item has come to
RECURSIVE DocsUpTo(_)
DocsUpTo(k) == IF k = 0 THEN <<>> ELSE DocsUpTo(k - 1) \o Respond(k).docs
Visited == SubSeq(DocsUpTo(NPages), 1, Len(DocsUpTo(NPages)) - Len(page_items))
Wanted(item) ==
    /\ item # NotObject
    /\ item.doi # NoDoi
    /\ filter_func.on => item.doi \in filter_func.accept

\* C23: what iter_item has yielded is, in order and with repetitions, the
\* items it has come to that have a DOI and that filter_func accepts; an
\* item that is no Object ends the iteration with ValueError, and when the
\* iteration has ended normally it has come to every item of every batch.
C23_YieldsWantedInOrder ==
    /\ emitted = SelectSeq(Visited, Wanted)
    /\ (\E i \in 1..Len(Visited) : Visited[i] = NotObject) =>
            /\ web_pc = "failed" /\ web_error = "ValueError"
            /\ Visited[Len(Visited)] = NotObject
            /\ \A i \in 1..(Len(Visited) - 1) : Visited[i] # NotObject
    /\ (web_pc = "done") => (Visited = DocsUpTo(NPages))
\* both batches were gone through: the second item of the first had no DOI,
\* the filter rejected 10.1/b, and 10.1/a was yielded each time it came
C23_Witness ==
    /\ web_pc = "done"
    /\ filter_func = [on |-> TRUE, accept |-> {"10.1/a"}]
    /\ DocsUpTo(2) = <<[doi |-> "10.1/a", ts |-> 1], NoItem, [doi |-> "10.1/b", ts |-> NoTs],
                       [doi |-> "10.1/a", ts |-> 1]>>
    /\ emitted = <<[doi |-> "10.1/a", ts |-> 1], [doi |-> "10.1/a", ts |-> 1]>>

\* the stored keys among ys are the stored keys other than the reserved
\* one, each once and in key order
YieldsStored(ys, store) ==
    SelectSeq(ys, LAMBDA k : k \in DOMAIN store)
        = SelectSeq(KeyOrder, LAMBDA k : k \in DOMAIN store \ {SpecialKey})

\* C24: a full iteration of a reader yields every stored DOI other than the
\* reserved key exactly once and in key order, and a call of __iter__, at
\* whatever point of an earlier iteration, makes the iteration that follows
\* such a full one.
C24_IterateInKeyOrder ==
    /\ [](reader.open => YieldsStored(Iterate(snapshot), snapshot))
    /\ [][(reader.open /\ reader'.iter /\ out' = NoResult) =>
            YieldsStored(IterateFrom(snapshot', reader'.pos, reader'.has_more), snapshot')]_vars
\* an iteration over a store of two DOIs and the reserved entry has yielded
\* the second DOI: a call of __iter__ now starts over
C24_Witness ==
    /\ reader.open /\ reader.iter
    /\ DOMAIN snapshot = {"10.1/a", "10.1/b", SpecialKey}
    /\ out.op = "next" /\ out.status = "ok" /\ out.key = "10.1/b"

\* C25: insert_item of an item without a DOI changes nothing: the store,
\* the open transaction (none is begun), item_count and most_recent_indexed
\* stay as they were, and the loop goes on.
C25_NoDoiNoEffect ==
    [][(pc = "loop" /\ steps' = steps + 1 /\ cur_item'.doi = NoDoi) =>
            /\ UNCHANGED <<db, txn, item_count, most_recent_indexed, open_txns>>
            /\ pc' = "loop" /\ ~raised']_vars
\* an item without a DOI was handed over while no transaction was open, and
\* none is open after it
C25_Witness ==
    /\ pc = "loop" /\ cur_item.doi = NoDoi /\ cur_item.ts = 1
    /\ ~txn.open /\ item_count = 0 /\ steps = 1

\* the reserved entry of a store, as a sequence of at most one value
ReservedEntry(store) == IF SpecialKey \in DOMAIN store THEN <<store[SpecialKey]>> ELSE <<>>

\* C26: insert_item of an item that has a DOI and no indexed date-time, when
\* it does not raise, puts the item's entry into the view of the write path
\* and leaves most_recent_indexed and the reserved entry of that view as they
\* were; the loop then goes on with the next item.
C26_NoTimestampKeepsWatermark ==
    /\ [][(pc = "loop" /\ steps' = steps + 1 /\ ~raised'
            /\ cur_item'.doi # NoDoi /\ cur_item'.ts = NoTs) =>
                /\ pc' = "wm"
                /\ cur_item'.doi \in DOMAIN ViewOf(db', txn')
                /\ ExtractValue(ViewOf(db', txn')[cur_item'.doi]) = Mini(cur_item')
                /\ most_recent_indexed' = most_recent_indexed
                /\ ReservedEntry(ViewOf(db', txn')) = ReservedEntry(CurView)]_vars
    /\ [][(pc = "wm" /\ cur_item.ts = NoTs /\ last_exit' # "crash") =>
                /\ pc' = "loop"
                /\ UNCHANGED <<db, txn, item_count, most_recent_indexed>>]_vars

\* C27: when a run starts, most_recent_indexed is the timestamp the reserved
\* entry of the store states whenever the store has that entry, and the
\* floor datetime(1900, 1, 1) only when it has none.
C27_StartsFromPersisted ==
    [][(pc = "idle" /\ pc' = "loop") =>
            IF SpecialKey \in DOMAIN db
            THEN Isoformat(most_recent_indexed') = ExtractValue(db[SpecialKey])
            ELSE most_recent_indexed' = Floor]_vars

\* C28: get_from_date returns a supplied from_date unchanged; given none, on
\* a store whose reserved entry states a watermark, it returns the date the
\* watermark falls on, which does not begin after the watermark, so that no
\* timestamp later than the watermark lies before the lower bound.
C28_FromDateNotAfterWatermark ==
    [][(web_pc = "params" /\ web_pc' # "params") =>
            /\ (from_date # NoDate) => (web_pc' = "dated" /\ from_date' = from_date)
            /\ (from_date = NoDate /\ WatermarkTs(db) # NoTs) =>
                    /\ web_pc' = "dated"
                    /\ DayStart(from_date') <= WatermarkTs(db)
                    /\ WatermarkTs(db) < DayStart(from_date' + 1)
                    /\ \A ts \in Stamps : ts > WatermarkTs(db) => ts >= DayStart(from_date')]_vars
\* no date was supplied, the watermark is the second tick of its day, and the
\* lower bound is that day
C28_Witness ==
    /\ web_pc = "dated" /\ WatermarkTs(db) = 1 /\ from_date = 0 /\ runs = 1
    /\ DayStart(from_date) < WatermarkTs(db)

\* C29: a paged request is sent only when no item of the pages fetched so
\* far is left to go through or waits to be taken by the caller: by then
\* the caller has been given every item of those pages that iter_item
\* yields; so the items not yet gone through are always a tail of the page
\* fetched last.
C29_OnePageOutstanding ==
    /\ [][(NPages' = NPages + 1) =>
            /\ page_items = <<>> /\ pending = NoItem
            /\ emitted = SelectSeq(DocsUpTo(NPages), Wanted)]_vars
    /\ [](NPages > 0 => \E n \in 0..Len(Respond(NPages).docs) :
                page_items = SubSeq(Respond(NPages).docs, n + 1, Len(Respond(NPages).docs)))
\* the second page has been asked for after a first page of three items, two
\* of which were yielded and taken
C29_Witness ==
    /\ NPages = 2 /\ Len(Respond(1).docs) = 3 /\ Len(emitted) >= 2 /\ pending = NoItem
    /\ web_pc = "page"

\* C30: a run that has started comes to its end, normally or with an
\* exception: over the segment files of the directory, or against a remote
\* that answers with a page of zero items at the latest after MaxPages
\* pages, each commit either succeeding or raising after its retries.
C30_RunTerminates ==
    (pc = "loop") ~> (pc = "idle" /\ last_exit \in {"normal", "error", "commit_error"})
\* an update has ended normally after the remote's last possible page, and a
\* bulk load has ended with an exception
C30_Witness ==
    \/ pc = "idle" /\ last_exit = "normal" /\ NPages = MaxPages + 1
    \/ pc = "idle" /\ last_exit = "error" /\ yielded # <<>>

\* the DOIs get_most_recent_indexed reads the items of
RecordKeys(store) == DOMAIN store \ SpecialKeys
\* C31: on a store that holds items, one of them at least with an indexed
\* date-time, get_most_recent_indexed returns the date of the greatest
\* indexed date-time among the items, whether or not every item has one;
\* stated for the stores none of whose DOIs __getitem__ hides.
C31_ScanReturnsMaximum ==
    (reader.open /\ out.op = "scan" /\ VisibleStamps(snapshot) # {}
        /\ \A k \in RecordKeys(snapshot) : ~StartsWithDunder(k)) =>
        /\ out.status = "ok"
        /\ out.n = Strftime(MaxOf(VisibleStamps(snapshot)))

\* the stored bytes are one JSON document, compressed once or not at all
StoresObject(store, key) ==
    LET v == store[key]
    IN v.enc = "json" /\ Len(v.z) <= 1
\* the key is one a reader hands out and the store holds
Readable(store, key) == key \in DOMAIN store /\ ~StartsWithDunder(key)

\* C32: reader[key] raises ValueError when the value stored under the key
\* does not decode to an Object, and the reader stays as it was: the call
\* that follows, be it reader[key] for an entry that holds an Object, len()
\* or iter(), gives what it gives on a reader that saw no failure.
C32_BadValueFailsOneGet ==
    /\ []((reader.open /\ out.op = "get" /\ Readable(snapshot, out.key)
            /\ ~StoresObject(snapshot, out.key)) => out.status = "ValueError")
    /\ [][(reader.open /\ out.op = "get" /\ out.status = "ValueError" /\ reader'.open) =>
            /\ reader'.open /\ snapshot' = snapshot
            /\ (out'.op = "get" /\ Readable(snapshot, out'.key)
                    /\ StoresObject(snapshot, out'.key)) =>
                        /\ out'.status = "ok"
                        /\ Mini(out'.doc) = [snapshot[out'.key] EXCEPT !.z = <<>>]
            /\ (out'.op = "len") => (out'.status = "ok" /\ out'.n = Length(db))
            /\ (out' = NoResult /\ reader'.iter) =>
                    IterateFrom(snapshot, reader'.pos, reader'.has_more)
                        = SelectSeq(KeyOrder, LAMBDA k : k \in DOMAIN snapshot)]_vars
\* reader["10.1/a"] has failed on a text stored in place of an item, on a
\* store whose other entry holds an item
C32_Witness ==
    /\ reader.open /\ out.op = "get" /\ out.key = "10.1/a" /\ out.status = "ValueError"
    /\ DOMAIN snapshot = DecodeKeys
    /\ snapshot["10.1/a"] = Compress(Isoformat(1))
    /\ StoresObject(snapshot, "10.1/b")

\* C33: total_items of a FileSource is the number of files its iteration
\* yields the data of, whatever the numbers of the files in the directory
\* and whatever start_from_file_num.
C33_TotalIsFilesProcessed ==
    (file_state = "done") => (TotalItems(gz_paths, start_from_file_num) = Len(yielded))

\* C34: every stored key that next(reader) returns is one reader[key]
\* returns the item of: __next__ and __getitem__ hide the same keys.
C34_IterationAgreesWithLookup ==
    (reader.open /\ out.op = "next" /\ out.status = "ok" /\ out.key \in DOMAIN snapshot) =>
        GetItem(snapshot, out.key).status = "ok"

\* C35: a reader on a store without any item, empty or holding the reserved
\* entry alone, yields no key: the first next(reader) raises StopIteration.
C35_NoRecordsNoKeys ==
    (reader.open /\ out.op = "next" /\ RecordKeys(snapshot) = {}) =>
        out.status = "StopIteration"

\* C36: no transaction is given more than StopAfterAttempt attempts of
\* commit in all: one call of commit stays within the bound, and a
\* transaction whose commit was given up with RetryError inside insert is
\* not committed again when the scope exits. Stated for the first run, in
\* which last_error can only tell of a commit of this run.
C36_AttemptsWithinBound ==
    /\ [](attempt_number <= StopAfterAttempt)
    /\ [][(runs = 1 /\ pc = "exit" /\ txn.open /\ last_error = "RetryError") =>
                pc' # "commit"]_vars

\* C37: whatever DOIs the items of a run carry, the reserved entry, in the
\* committed store and in the view of the open transaction, holds the
\* isoformat text of a timestamp and never the JSON of an item.
C37_ReservedHoldsWatermark ==
    \A store \in {db, CurView} :
        SpecialKey \in DOMAIN store => IsIsoText(ExtractValue(store[SpecialKey]))

\* C38: the validation of the parameters lets no commit_frequency through
\* that makes insert fail in item_count % commit_frequency: no put of a run
\* is followed by that failure, which leaves the put staged and the run on
\* its way out.
C38_FrequencyValidated ==
    [][(pc = "loop" /\ item_count' = item_count + 1 /\ raised' /\ txn'.open) =>
            commit_frequency # 0]_vars
====
